---- MODULE Spec2Model ----
(***************************************************************************)
(* Red Flag Identifier: the analysis pipeline.                             *)
(*                                                                         *)
(*   Spec        analyze(): merge, severity filter, dedup, speakers, sort  *)
(*               (src/red_flag_identifier/analyzer.py)                     *)
(*   SpecChunks  _split_into_chunks()                                      *)
(*               (src/red_flag_identifier/ai_analyzer.py)                  *)
(*   SpecRemote  analyze_with_ai() / _analyze_chunk(): the per-chunk       *)
(*               remote calls, retries, waits and response parsing         *)
(*               (src/red_flag_identifier/ai_analyzer.py)                  *)
(*   SpecCallers the front ends that call analyze(): main() of cli.py,     *)
(*               analyze_text() of web.py, do_POST() of api/index.py       *)
(*   SpecRules   the rule scans of analyze(): scan_text() on the built-in  *)
(*               rules, load_custom_rules(), scan_text() on the loaded     *)
(*               rules (rules/keyword_rules.py, rules/custom_rules.py)     *)
(*   SpecSpeakers  _build_speaker_map() (analyzer.py)                      *)
(*   SpecScan    scan_text() on any rule list (rules/keyword_rules.py)     *)
(***************************************************************************)
EXTENDS Integers, Sequences, FiniteSets, TLC

VARIABLES
    \* ---- analyze() ----
    mode,               \* "hybrid" | "rules-only" | "ai-only"
    min_severity,       \* the requested severity floor
    custom_rules_path,  \* TRUE iff a custom rules path was given
    keyword_out,        \* what scan_text(text) returns
    custom_out,         \* what scan_with_custom_rules(text, path) returns
    ai_out,             \* what analyze_with_ai(text, api_key) returns
    ai_raises,          \* TRUE iff analyze_with_ai raises instead of returning
    pc,                 \* "start" | "returned" | "raised"
    all_matches,        \* the merged list (line 71)
    filtered,           \* after the severity filter (line 75)
    deduped,            \* after _deduplicate (line 78)
    result,             \* the returned list (line 89)
    \* ---- _split_into_chunks() ----
    text,               \* the input text, a sequence of runs of characters
    chunks,             \* the returned list of (chunk_text, start_line)
    split_pc,           \* "start" | "returned"
    \* ---- analyze_with_ai() / _analyze_chunk() ----
    api_key,            \* TRUE iff a key is given or is in the environment
    anthropic_installed,\* TRUE iff the client package can be imported
    ai_pc,              \* where analyze_with_ai stands
    chunk_i,            \* i of the loop over the chunks, from 1
    attempt,            \* attempt of the loop of _analyze_chunk, from 0
    all_findings,       \* the parsed findings collected so far
    ai_error,           \* the exception that left analyze_with_ai, or "none"
    log,                \* the remote calls and the waits, in order
    \* ---- the front ends: cli.py, web.py, api/index.py ----
    caller,             \* "cli" | "web" | "api"
    output_format,      \* --format of the command line: "text" | "json"
    upload,             \* TRUE iff the web form carries an uploaded file
    caller_pc,          \* "idle" | "start" | "analyzing" | "done"
    outcome,            \* how the request ended, or "none"
    \* ---- scan_text() / load_custom_rules() ----
    transcript,         \* the text to scan, a sequence of words and newlines
    rules_source,       \* the custom rules file: "missing", or its entries
    scan_rules,         \* the rules scan_text is called with
    scan_matches,       \* the matches found so far
    scan_log,           \* the lines scanned and the errors raised, in order
    scan_error,         \* the exception raised, or "none"
    scan_pc,            \* "idle" | "builtin" | "load" | "custom" | "scan" |
                        \* "returned" | "raised"
    \* ---- _build_speaker_map() ----
    speaker_text,       \* the text, a sequence of characters
    speaker_map,        \* the returned map: line number -> speaker
    speaker_pc          \* "idle" | "start" | "returned"

reconcileVars == <<mode, min_severity, custom_rules_path, keyword_out, custom_out,
                   ai_out, ai_raises, pc, all_matches, filtered, deduped, result>>

chunkVars == <<text, chunks, split_pc>>

remoteVars == <<api_key, anthropic_installed, ai_pc, chunk_i, attempt, all_findings,
                ai_error, log>>

callerVars == <<caller, output_format, upload, caller_pc, outcome>>

\* the variables of the front ends and of the detectors taken alone
scanVars == <<transcript, rules_source, scan_rules, scan_matches, scan_log,
              scan_error, scan_pc>>

speakerVars == <<speaker_text, speaker_map, speaker_pc>>

frontVars == <<callerVars, scanVars, speakerVars>>

vars == <<reconcileVars, chunkVars, remoteVars, frontVars>>

-----------------------------------------------------------------------------
(* Bounds of the model *)

\* the most findings the three detectors return together
MaxMatches == 3

\* the most runs of characters an input text is made of
MaxRuns == 5

\* the most runs of characters of a text handed to analyze_with_ai
MaxRemoteRuns == 3

-----------------------------------------------------------------------------
(* Values *)

Modes == {"hybrid", "rules-only", "ai-only"}

Severities == {"critical", "high", "medium", "low"}

\* a severity string outside the four levels (a custom rule file or the
\* remote response can carry any string)
UnknownSeverity == "urgent"

Categories == {"sales/fraud"}

Texts == {"kickback", "side deal"}

Lines == {1}

\* speaker_map of the analysed text: line -> current speaker
SpeakerOf(line) == IF line = 1 THEN "Alice" ELSE ""

\* what a detector reports, before the merge gives it its place in the list
RawKeyword == [category : Categories, severity : Severities,
               matched_text : Texts, line_number : Lines]

RawOpen == [category : Categories, severity : Severities \cup {UnknownSeverity},
            matched_text : Texts, line_number : Lines]

SeqsOfLen(S, n) == [1..n -> S]

-----------------------------------------------------------------------------
(* Helpers on sequences *)

Range(s) == {s[i] : i \in 1..Len(s)}

RECURSIVE SplitTokensLoop(_, _, _, _)
SplitTokensLoop(t, i, current, acc) ==
    IF i > Len(t) THEN Append(acc, current)
    ELSE IF t[i] = "\n" THEN SplitTokensLoop(t, i + 1, <<>>, Append(acc, current))
    ELSE SplitTokensLoop(t, i + 1, Append(current, t[i]), acc)

\* text.split("\n") of a text given as a sequence of tokens (characters, or
\* words), the newline being the token "\n": at least one line
SplitTokens(t) == SplitTokensLoop(t, 1, <<>>, <<>>)

-----------------------------------------------------------------------------
(* analyzer.py *)

SEVERITY_ORDER ==
    [s \in Severities |->
        CASE s = "critical" -> 0
          [] s = "high"     -> 1
          [] s = "medium"   -> 2
          [] s = "low"      -> 3]

\* SEVERITY_ORDER.get(severity, 3)
SeverityRank(severity) ==
    IF severity \in DOMAIN SEVERITY_ORDER THEN SEVERITY_ORDER[severity] ELSE 3

\* one RuleMatch object; id stands for the object's identity (two findings
\* with equal fields are still two objects of the list)
RuleMatch(raw, source, id) ==
    [id |-> id, category |-> raw.category, severity |-> raw.severity,
     matched_text |-> raw.matched_text, line_number |-> raw.line_number,
     source |-> source, speaker |-> ""]

Tagged(raws, source, base) ==
    [i \in 1..Len(raws) |-> RuleMatch(raws[i], source, base + i)]

\* lines 58-71: keyword findings, then custom findings, then AI findings
Merge(m, path, kw, cu, ai) ==
    LET a == IF m \in {"hybrid", "rules-only"} THEN Tagged(kw, "keyword", 0) ELSE <<>>
        b == a \o (IF path /\ m \in {"hybrid", "rules-only"}
                   THEN Tagged(cu, "custom", Len(a)) ELSE <<>>)
    IN  b \o (IF m \in {"hybrid", "ai-only"} THEN Tagged(ai, "ai", Len(b)) ELSE <<>>)

\* the comparison of the filter turned around
FilterBySeverity_Inverted(ms, floor) ==
    SelectSeq(ms, LAMBDA m : SeverityRank(m.severity) >= SeverityRank(floor))

\* lines 74-75
FilterBySeverity(ms, floor) ==
    SelectSeq(ms, LAMBDA m : SeverityRank(m.severity) <= SeverityRank(floor))

\* The dict seen keeps insertion order; assigning to a key it already
\* holds replaces the value in place.  It is a sequence of [key, val].
\* A key is the pair (line_number, category) or the triple
\* (line_number, category, matched_text); a pair never equals a triple.
SameKey(a, b) == Len(a) = Len(b) /\ a = b

DictFind(seen, key) ==
    LET hits == {i \in 1..Len(seen) : SameKey(seen[i].key, key)}
    IN  IF hits = {} THEN 0 ELSE CHOOSE i \in hits : TRUE

DictSet(seen, key, val) ==
    LET i == DictFind(seen, key)
    IN  IF i = 0 THEN Append(seen, [key |-> key, val |-> val])
        ELSE [seen EXCEPT ![i] = [key |-> key, val |-> val]]

\* lines 97-107: one iteration of the loop of _deduplicate
DedupStep(seen, match) ==
    LET key == <<match.line_number, match.category>>
        i   == DictFind(seen, key)
    IN  IF i = 0 THEN DictSet(seen, key, match)
        ELSE IF match.source = "ai" /\ seen[i].val.source # "ai"
             THEN DictSet(seen, key, match)
        ELSE IF match.source = seen[i].val.source
             THEN DictSet(seen,
                          <<match.line_number, match.category, match.matched_text>>,
                          match)
        ELSE seen

RECURSIVE DedupLoop(_, _, _)
DedupLoop(matches, i, seen) ==
    IF i > Len(matches) THEN seen
    ELSE DedupLoop(matches, i + 1, DedupStep(seen, matches[i]))

\* lines 92-109: list(seen.values())
_deduplicate(matches) ==
    LET seen == DedupLoop(matches, 1, <<>>)
    IN  [i \in 1..Len(seen) |-> seen[i].val]

\* lines 81-84
AssignSpeakers(ms) ==
    [i \in 1..Len(ms) |->
        IF ms[i].speaker = "" /\ ms[i].line_number \in Lines
        THEN [ms[i] EXCEPT !.speaker = SpeakerOf(ms[i].line_number)]
        ELSE ms[i]]

\* an unstable sort: m goes in front of the elements whose key equals its own
InsertByRank_Unstable(sorted, m) ==
    LET before == {i \in 1..Len(sorted) :
                      SeverityRank(sorted[i].severity) >= SeverityRank(m.severity)}
        at == IF before = {} THEN Len(sorted) + 1
              ELSE CHOOSE i \in before : \A j \in before : i <= j
    IN  SubSeq(sorted, 1, at - 1) \o <<m>> \o SubSeq(sorted, at, Len(sorted))

\* list.sort is stable: m goes behind every element whose key is <= its own
InsertByRank(sorted, m) ==
    LET before == {i \in 1..Len(sorted) :
                      SeverityRank(sorted[i].severity) > SeverityRank(m.severity)}
        at == IF before = {} THEN Len(sorted) + 1
              ELSE CHOOSE i \in before : \A j \in before : i <= j
    IN  SubSeq(sorted, 1, at - 1) \o <<m>> \o SubSeq(sorted, at, Len(sorted))

RECURSIVE SortLoop(_, _, _)
SortLoop(ms, i, sorted) ==
    IF i > Len(ms) THEN sorted
    ELSE SortLoop(ms, i + 1, InsertByRank(sorted, ms[i]))

\* line 87
SortBySeverity(ms) == SortLoop(ms, 1, <<>>)

-----------------------------------------------------------------------------
(* analyzer.py: SPEAKER_PATTERNS and _build_speaker_map *)

UpperLetters == <<"A", "B", "C", "D", "E", "F", "G", "H", "I", "J", "K", "L", "M", "N",
    "O", "P", "Q", "R", "S", "T", "U", "V", "W", "X", "Y", "Z">>

LowerLetters == <<"a", "b", "c", "d", "e", "f", "g", "h", "i", "j", "k", "l", "m", "n",
    "o", "p", "q", "r", "s", "t", "u", "v", "w", "x", "y", "z">>

Letters == Range(UpperLetters) \cup Range(LowerLetters)

Digits == {"0", "1", "2", "3", "4", "5", "6", "7", "8", "9"}

\* \s inside a line
Whitespace == {" ", "\t"}

\* [a-zA-Z\s\.]
NameChars == Letters \cup Whitespace \cup {"."}

\* re.I: the letter without its case
ToLower(c) ==
    IF \E k \in 1..26 : UpperLetters[k] = c
    THEN LowerLetters[CHOOSE k \in 1..26 : UpperLetters[k] = c]
    ELSE c

RECURSIVE SkipSpaces(_, _)
\* \s*, greedy: the first position from p on that holds no white space
SkipSpaces(line, p) ==
    IF p <= Len(line) /\ line[p] \in Whitespace THEN SkipSpaces(line, p + 1) ELSE p

RECURSIVE SkipDigits(_, _)
\* \d+, greedy
SkipDigits(line, p) ==
    IF p <= Len(line) /\ line[p] \in Digits THEN SkipDigits(line, p + 1) ELSE p

NoMatch == [matched |-> FALSE, group |-> <<>>]

Matched(group) == [matched |-> TRUE, group |-> group]

\* \s*SEP\s from position p on
SepFollows(line, p, sep) ==
    LET q == SkipSpaces(line, p)
    IN  q + 1 <= Len(line) /\ line[q] = sep /\ line[q + 1] \in Whitespace

\* ([A-Z][a-zA-Z\s\.]+?)\s*SEP\s with the capital letter at position p:
\* where the name can end; +? takes the least end, at least one character
\* after the capital letter
NameEnds(line, p, sep) ==
    {e \in (p + 1)..Len(line) :
        /\ \A k \in (p + 1)..e : line[k] \in NameChars
        /\ SepFollows(line, e + 1, sep)}

Least(S) == CHOOSE x \in S : \A y \in S : x <= y

\* line 15: ^\s*([A-Z][a-zA-Z\s\.]+?)\s*:\s and line 17, the same with "-"
MatchNameSep(line, sep) ==
    LET p == SkipSpaces(line, 1)
        ends == NameEnds(line, p, sep)
    IN  IF p <= Len(line) /\ line[p] \in Range(UpperLetters) /\ ends # {}
        THEN Matched(SubSeq(line, p, Least(ends)))
        ELSE NoMatch

\* \]\s*:?\s from position p on
BracketFollows(line, p) ==
    /\ p <= Len(line) /\ line[p] = "]"
    /\ \/ SepFollows(line, p + 1, ":")
       \/ (p + 1 <= Len(line) /\ line[p + 1] \in Whitespace)

\* where the name in brackets can end, the capital letter at position p
BracketNameEnds(line, p) ==
    {e \in (p + 1)..Len(line) :
        /\ \A k \in (p + 1)..e : line[k] \in NameChars
        /\ BracketFollows(line, e + 1)}

\* line 16: ^\s*\[([A-Z][a-zA-Z\s\.]+?)\]\s*:?\s
MatchBracket(line) ==
    LET p == SkipSpaces(line, 1)
        ends == BracketNameEnds(line, p + 1)
    IN  IF p + 1 <= Len(line) /\ line[p] = "[" /\ line[p + 1] \in Range(UpperLetters)
           /\ ends # {}
        THEN Matched(SubSeq(line, p + 1, Least(ends)))
        ELSE NoMatch

SpeakerWord == <<"s", "p", "e", "a", "k", "e", "r">>

\* line 18: ^\s*Speaker\s*(\d+|[A-Z])\s*:\s with re.I
MatchSpeakerN(line) ==
    LET p == SkipSpaces(line, 1)
        g == SkipSpaces(line, p + 7)
        d == SkipDigits(line, g)
    IN  IF p + 6 <= Len(line)
           /\ \A k \in 1..7 : ToLower(line[p + k - 1]) = SpeakerWord[k]
        THEN IF d > g /\ SepFollows(line, d, ":")
             THEN Matched(SubSeq(line, g, d - 1))
             ELSE IF g <= Len(line) /\ line[g] \in Letters /\ SepFollows(line, g + 1, ":")
             THEN Matched(<<line[g]>>)
             ELSE NoMatch
        ELSE NoMatch

\* lines 14-19: pattern.match(line) for the pattern of this place in the list
PatternMatch(k, line) ==
    CASE k = 1 -> MatchNameSep(line, ":")
      [] k = 2 -> MatchBracket(line)
      [] k = 3 -> MatchNameSep(line, "-")
      [] k = 4 -> MatchSpeakerN(line)

RECURSIVE StripChars(_)
\* str.strip()
StripChars(cs) ==
    IF cs # <<>> /\ Head(cs) \in Whitespace THEN StripChars(Tail(cs))
    ELSE IF cs # <<>> /\ cs[Len(cs)] \in Whitespace
    THEN StripChars(SubSeq(cs, 1, Len(cs) - 1))
    ELSE cs

RECURSIVE FirstMatch(_, _, _)
\* lines 29-33: the first pattern that matches sets current_speaker
FirstMatch(line, k, current) ==
    IF k > 4 THEN current
    ELSE IF PatternMatch(k, line).matched THEN StripChars(PatternMatch(k, line).group)
    ELSE FirstMatch(line, k + 1, current)

RECURSIVE SpeakerLoop_NoCarry(_, _, _, _)
SpeakerLoop_NoCarry(ls, i, current, map) ==
    IF i > Len(ls) THEN map
    ELSE LET speaker == FirstMatch(ls[i], 1, <<>>)
         IN  SpeakerLoop_NoCarry(ls, i + 1, speaker, Append(map, speaker))

RECURSIVE SpeakerLoop(_, _, _, _)
\* lines 28-34
SpeakerLoop(ls, i, current, map) ==
    IF i > Len(ls) THEN map
    ELSE LET speaker == FirstMatch(ls[i], 1, current)
         IN  SpeakerLoop(ls, i + 1, speaker, Append(map, speaker))

\* lines 22-36: the map is the sequence of its values, keys 1..Len
_build_speaker_map(t) == SpeakerLoop(SplitTokens(t), 1, <<>>, <<>>)

-----------------------------------------------------------------------------
(* ai_analyzer.py: _split_into_chunks *)

MAX_CHARS_PER_CHUNK == 80000

\* A text is a sequence of runs: the newline, or n equal characters other
\* than the newline.  Its length in characters is the sum of the runs.
NL == [ch |-> "\n", n |-> 1]

RunLengths == {1, 39999, 40000, 80000}

Runs == {NL} \cup {[ch |-> "x", n |-> k] : k \in RunLengths}

RECURSIVE CharLen(_)
\* len(s)
CharLen(s) == IF s = <<>> THEN 0 ELSE Head(s).n + CharLen(Tail(s))

RECURSIVE SplitLoop(_, _, _, _)
SplitLoop(s, i, current, lines) ==
    IF i > Len(s) THEN Append(lines, current)
    ELSE IF s[i] = NL THEN SplitLoop(s, i + 1, <<>>, Append(lines, current))
    ELSE SplitLoop(s, i + 1, Append(current, s[i]), lines)

\* s.split("\n"): the lines of s, at least one, the last one empty when s
\* ends in a newline
SplitLines(s) == SplitLoop(s, 1, <<>>, <<>>)

RECURSIVE JoinLines(_)
\* "\n".join(lines)
JoinLines(lines) ==
    IF lines = <<>> THEN <<>>
    ELSE IF Len(lines) = 1 THEN lines[1]
    ELSE lines[1] \o <<NL>> \o JoinLines(Tail(lines))

\* a flush that forgets to start the next chunk empty
ChunkStep_NoReset(st, i, line) ==
    LET line_chars == CharLen(line) + 1
        flush == st.current_chars + line_chars > MAX_CHARS_PER_CHUNK
                 /\ st.current_chunk_lines # <<>>
        st1 == IF flush
               THEN [chunks |-> Append(st.chunks,
                                       [text |-> JoinLines(st.current_chunk_lines),
                                        start_line |-> st.chunk_start_line]),
                     current_chunk_lines |-> st.current_chunk_lines,
                     current_chars |-> 0,
                     chunk_start_line |-> i + 1]
               ELSE st
    IN  [st1 EXCEPT !.current_chunk_lines = Append(@, line),
                    !.current_chars = @ + line_chars]

\* lines 54-63: one iteration of the loop; st is the tuple of the locals
ChunkStep(st, i, line) ==
    LET line_chars == CharLen(line) + 1
        flush == st.current_chars + line_chars > MAX_CHARS_PER_CHUNK
                 /\ st.current_chunk_lines # <<>>
        st1 == IF flush
               THEN [chunks |-> Append(st.chunks,
                                       [text |-> JoinLines(st.current_chunk_lines),
                                        start_line |-> st.chunk_start_line]),
                     current_chunk_lines |-> <<>>,
                     current_chars |-> 0,
                     chunk_start_line |-> i + 1]
               ELSE st
    IN  [st1 EXCEPT !.current_chunk_lines = Append(@, line),
                    !.current_chars = @ + line_chars]

RECURSIVE ChunkLoop(_, _, _)
\* i is enumerate's index, from 0
ChunkLoop(lines, i, st) ==
    IF i >= Len(lines) THEN st
    ELSE ChunkLoop(lines, i + 1, ChunkStep(st, i, lines[i + 1]))

\* lines 43-68
_split_into_chunks(s) ==
    LET lines == SplitLines(s)
        st == ChunkLoop(lines, 0, [chunks |-> <<>>, current_chunk_lines |-> <<>>,
                                   current_chars |-> 0, chunk_start_line |-> 1])
    IN  IF st.current_chunk_lines # <<>>
        THEN Append(st.chunks, [text |-> JoinLines(st.current_chunk_lines),
                                start_line |-> st.chunk_start_line])
        ELSE st.chunks

-----------------------------------------------------------------------------
(* SpecChunks: one call of _split_into_chunks() *)

TextsUpTo(n) == UNION {[1..k -> Runs] : k \in 0..n}

IdleChunks == text = <<>> /\ chunks = <<>> /\ split_pc = "idle"

InitChunks ==
    /\ text \in TextsUpTo(MaxRuns)
    /\ chunks = <<>>
    /\ split_pc = "start"

SplitIntoChunks ==
    /\ split_pc = "start"
    /\ chunks' = _split_into_chunks(text)
    /\ split_pc' = "returned"
    /\ UNCHANGED text

-----------------------------------------------------------------------------
(* ai_analyzer.py: the remote capability and its response text *)

DELAY_BETWEEN_CHUNKS == 65

max_retries == 3

\* What an exception of the client says: the markers its message holds.
\* "auth" stands for "authentication_error" or "401", "billing" for
\* "credit balance" or "billing", "rate" for "rate_limit" or "429".
ErrorMessages == SUBSET {"auth", "billing", "rate"}

\* a key of a finding record that the response left out
Absent == "<absent>"

AbsentInt == -1

\* JSON values, as json.loads returns them.  The elements of a list, the
\* keys of an object and the characters of a string are what
\* list.extend() takes from the value.
Element(type, rec) == [type |-> type, rec |-> rec]

NoRecord == [category |-> Absent, severity |-> Absent, quote |-> Absent,
             line_hint |-> AbsentInt]

FindingRecord(line) == [category |-> "sales/fraud", severity |-> "high",
                        quote |-> "kickback", line_hint |-> line]

JsonValue(type, items) == [type |-> type, items |-> items]

\* [{"category": ..., "severity": ..., "quote": ..., "line_hint": line}]
JsonFindings(line) == JsonValue("list", <<Element("dict", FindingRecord(line))>>)

\* [{}]
JsonEmptyRecord == JsonValue("list", <<Element("dict", NoRecord)>>)

\* [1]
JsonNumbers == JsonValue("list", <<Element("number", NoRecord)>>)

\* {"findings": []}
JsonObject == JsonValue("dict", <<Element("str", NoRecord)>>)

\* 1
JsonNumber == JsonValue("number", <<>>)

NoValue == JsonValue("none", <<>>)

\* The response text is a sequence of tokens: the code fence, the line break,
\* prose, or the text of one JSON value.
Token(kind, value) == [kind |-> kind, value |-> value]

FENCE == Token("fence", NoValue)

BREAK == Token("\n", NoValue)

PROSE == Token("prose", NoValue)

Json(value) == Token("json", value)

\* the response texts the remote capability may give for a chunk that
\* starts at the given line
Responses(line) ==
    { <<Json(JsonFindings(line))>>,
      <<FENCE, BREAK, Json(JsonFindings(line)), BREAK, FENCE>>,
      <<FENCE, BREAK, Json(JsonFindings(line))>>,
      <<FENCE, Json(JsonFindings(line)), FENCE>>,
      <<Json(JsonEmptyRecord)>>,
      <<PROSE>>,
      <<Json(JsonObject)>>,
      <<Json(JsonNumber)>>,
      <<Json(JsonNumbers)>> }

-----------------------------------------------------------------------------
(* ai_analyzer.py: _analyze_chunk *)

RECURSIVE StripLeft(_)
StripLeft(r) == IF r # <<>> /\ Head(r) = BREAK THEN StripLeft(Tail(r)) ELSE r

RECURSIVE StripRight(_)
StripRight(r) ==
    IF r # <<>> /\ r[Len(r)] = BREAK THEN StripRight(SubSeq(r, 1, Len(r) - 1)) ELSE r

\* str.strip(): the line break is the white space of a response text
Strip(r) == StripRight(StripLeft(r))

\* cleaned.startswith(three backquotes)
StartsWithFence(r) == r # <<>> /\ r[1] = FENCE

\* the place of the first t in r, 0 when there is none
FirstIndex(r, t) ==
    LET at == {i \in 1..Len(r) : r[i] = t}
    IN  IF at = {} THEN 0 ELSE CHOOSE i \in at : \A j \in at : i <= j

\* the place of the last t in r, 0 when there is none
LastIndex(r, t) ==
    LET at == {i \in 1..Len(r) : r[i] = t}
    IN  IF at = {} THEN 0 ELSE CHOOSE i \in at : \A j \in at : i >= j

\* json.loads(s): one JSON value with white space around it, or a
\* JSONDecodeError (ok = FALSE)
JsonLoads(r) ==
    LET body == Strip(r)
    IN  IF Len(body) = 1 /\ body[1].kind = "json"
        THEN [ok |-> TRUE, value |-> body[1].value]
        ELSE [ok |-> FALSE, value |-> NoValue]

\* lines 114-116: return json.loads(cleaned), except JSONDecodeError: return []
LoadOrNothing(cleaned) ==
    IF JsonLoads(cleaned).ok
    THEN [error |-> "none", value |-> JsonLoads(cleaned).value]
    ELSE [error |-> "none", value |-> JsonValue("list", <<>>)]

\* lines 107-116: what _analyze_chunk returns for a response text, or the
\* exception that leaves it
ParseResponse(response) ==
    LET cleaned == Strip(response)
        \* cleaned.split("\n", 1)[1]
        rest == SubSeq(cleaned, FirstIndex(cleaned, BREAK) + 1, Len(cleaned))
        \* cleaned.rsplit(fence, 1)[0]
        body == IF LastIndex(rest, FENCE) = 0 THEN rest
                ELSE SubSeq(rest, 1, LastIndex(rest, FENCE) - 1)
    IN  IF StartsWithFence(cleaned)
        THEN IF FirstIndex(cleaned, BREAK) = 0
             THEN [error |-> "IndexError", value |-> NoValue]
             ELSE LoadOrNothing(body)
        ELSE LoadOrNothing(cleaned)

\* the retry test with the bound off by one
CanRetry_OffByOne(a) == a < max_retries

\* line 101: attempt < max_retries - 1
CanRetry(a) == a < max_retries - 1

\* the rate-limit test made before the authentication and billing tests
Classify_RateFirst(message, a) ==
    IF "rate" \in message
    THEN (IF CanRetry(a) THEN "retry" ELSE "RuntimeError: rate limit")
    ELSE IF "auth" \in message THEN "RuntimeError: invalid key"
    ELSE IF "billing" \in message THEN "RuntimeError: credits"
    ELSE "RuntimeError: failed"

\* lines 94-105: what the except block does with the exception of attempt a
Classify(message, a) ==
    IF "auth" \in message THEN "RuntimeError: invalid key"
    ELSE IF "billing" \in message THEN "RuntimeError: credits"
    ELSE IF "rate" \in message
         THEN (IF CanRetry(a) THEN "retry" ELSE "RuntimeError: rate limit")
    ELSE "RuntimeError: failed"

-----------------------------------------------------------------------------
(* ai_analyzer.py: analyze_with_ai *)

\* line 141: all_findings.extend(findings); k is the chunk the findings are of
CanExtend(value) == value.type \in {"list", "dict", "str"}

Extend(findings, value, k) ==
    findings \o [j \in 1..Len(value.items) |->
                    [chunk |-> k, type |-> value.items[j].type, rec |-> value.items[j].rec]]

\* lines 143-154: finding.get needs every finding to be a dict
CanBuild(findings) == \A j \in 1..Len(findings) : findings[j].type = "dict"

\* lines 143-156: one RuleMatch per finding, finding.get(key, default)
BuildMatches(findings) ==
    [j \in 1..Len(findings) |->
        [category     |-> IF findings[j].rec.category = Absent THEN "general"
                          ELSE findings[j].rec.category,
         severity     |-> IF findings[j].rec.severity = Absent THEN "medium"
                          ELSE findings[j].rec.severity,
         matched_text |-> IF findings[j].rec.quote = Absent THEN ""
                          ELSE findings[j].rec.quote,
         line_number  |-> IF findings[j].rec.line_hint = AbsentInt THEN 0
                          ELSE findings[j].rec.line_hint]]

NumberedLines_FromOne(chunk_text, start_line) ==
    LET ls == SplitLines(chunk_text)
    IN  [j \in 1..Len(ls) |-> [number |-> j, line |-> ls[j]]]

\* lines 73-76: enumerate(chunk_text.split("\n"), start_line), each line
\* of the chunk with the number it is labelled with, "[Line i] line"
NumberedLines(chunk_text, start_line) ==
    LET ls == SplitLines(chunk_text)
    IN  [j \in 1..Len(ls) |-> [number |-> start_line + j - 1, line |-> ls[j]]]

\* lines 84-92: the call carries the numbered text of the chunk
CallEvent(k, a, ok, message, response) ==
    [ev |-> "call", chunk |-> k, attempt |-> a, ok |-> ok, message |-> message,
     response |-> response, seconds |-> 0,
     prompt |-> NumberedLines(chunks[k].text, chunks[k].start_line)]

SleepEvent(k, a) ==
    [ev |-> "sleep", chunk |-> k, attempt |-> a, ok |-> FALSE, message |-> {},
     response |-> <<>>, seconds |-> DELAY_BETWEEN_CHUNKS, prompt |-> <<>>]

\* lines 119-135
RemoteBegin ==
    /\ ai_pc = "start"
    /\ IF ~api_key \/ ~anthropic_installed
       THEN /\ ai_out' = <<>>
            /\ ai_pc' = "returned"
            /\ UNCHANGED <<chunks, chunk_i>>
       ELSE /\ chunks' = _split_into_chunks(text)
            /\ chunk_i' = 1
            /\ ai_pc' = "call"
            /\ UNCHANGED ai_out
    /\ UNCHANGED <<mode, min_severity, custom_rules_path, keyword_out, custom_out,
                   ai_raises, pc, all_matches, filtered, deduped, result>>
    /\ UNCHANGED <<text, split_pc>>
    /\ UNCHANGED <<api_key, anthropic_installed, attempt, all_findings, ai_error, log>>
    /\ UNCHANGED frontVars

\* the exception e leaves analyze_with_ai
Raise(e) ==
    /\ ai_pc' = "raised"
    /\ ai_error' = e
    /\ ai_raises' = TRUE
    /\ UNCHANGED <<ai_out, chunk_i, attempt, all_findings>>

\* lines 107-116 and 141-156: the response of chunk_i is parsed and added;
\* then the next chunk waits, or the matches are built and returned
Receive(response) ==
    LET parsed == ParseResponse(response)
        added == Extend(all_findings, parsed.value, chunk_i)
    IN  IF parsed.error # "none" THEN Raise(parsed.error)
        ELSE IF ~CanExtend(parsed.value) THEN Raise("TypeError")
        ELSE IF chunk_i < Len(chunks)
        THEN /\ all_findings' = added
             /\ chunk_i' = chunk_i + 1
             /\ attempt' = 0
             /\ ai_pc' = "wait_chunk"
             /\ UNCHANGED <<ai_out, ai_raises, ai_error>>
        ELSE IF ~CanBuild(added) THEN Raise("AttributeError")
        ELSE /\ all_findings' = added
             /\ ai_out' = BuildMatches(added)
             /\ ai_pc' = "returned"
             /\ UNCHANGED <<ai_raises, ai_error, chunk_i, attempt>>

\* lines 94-105: the call of attempt raised an exception with this message
Fail(message) ==
    IF Classify(message, attempt) = "retry"
    THEN /\ ai_pc' = "wait_retry"
         /\ UNCHANGED <<ai_out, ai_raises, ai_error, chunk_i, attempt, all_findings>>
    ELSE Raise(Classify(message, attempt))

\* lines 83-93: one client.messages.create for the chunk chunk_i
RemoteCall ==
    /\ ai_pc = "call"
    /\ \/ \E response \in Responses(chunks[chunk_i].start_line) :
             /\ log' = Append(log, CallEvent(chunk_i, attempt, TRUE, {}, response))
             /\ Receive(response)
       \/ \E message \in ErrorMessages :
             /\ log' = Append(log, CallEvent(chunk_i, attempt, FALSE, message, <<>>))
             /\ Fail(message)
    /\ UNCHANGED <<mode, min_severity, custom_rules_path, keyword_out, custom_out,
                   pc, all_matches, filtered, deduped, result>>
    /\ UNCHANGED chunkVars
    /\ UNCHANGED <<api_key, anthropic_installed>>
    /\ UNCHANGED frontVars

SleepBetweenChunks_Skipped ==
    /\ ai_pc = "wait_chunk"
    /\ ai_pc' = "call"
    /\ UNCHANGED <<reconcileVars, chunkVars>>
    /\ UNCHANGED <<api_key, anthropic_installed, chunk_i, attempt, all_findings,
                   ai_error, log>>
    /\ UNCHANGED frontVars

\* lines 138-140: time.sleep(DELAY_BETWEEN_CHUNKS) before a chunk after the first
SleepBetweenChunks ==
    /\ ai_pc = "wait_chunk"
    /\ log' = Append(log, SleepEvent(chunk_i, attempt))
    /\ ai_pc' = "call"
    /\ UNCHANGED <<reconcileVars, chunkVars>>
    /\ UNCHANGED <<api_key, anthropic_installed, chunk_i, attempt, all_findings, ai_error>>
    /\ UNCHANGED frontVars

\* lines 101-103: time.sleep(DELAY_BETWEEN_CHUNKS), continue
SleepBeforeRetry ==
    /\ ai_pc = "wait_retry"
    /\ log' = Append(log, SleepEvent(chunk_i, attempt))
    /\ attempt' = attempt + 1
    /\ ai_pc' = "call"
    /\ UNCHANGED <<reconcileVars, chunkVars>>
    /\ UNCHANGED <<api_key, anthropic_installed, chunk_i, all_findings, ai_error>>
    /\ UNCHANGED frontVars

IdleRemote ==
    /\ api_key = FALSE /\ anthropic_installed = TRUE
    /\ ai_pc = "idle" /\ chunk_i = 0 /\ attempt = 0
    /\ all_findings = <<>> /\ ai_error = "none" /\ log = <<>>

-----------------------------------------------------------------------------
(* Spec: one call of analyze() *)

InitReconcile ==
    /\ mode \in Modes
    /\ min_severity \in Severities
    /\ custom_rules_path \in BOOLEAN
    /\ \E nk \in 0..MaxMatches : \E nc \in 0..(MaxMatches - nk) :
       \E na \in 0..(MaxMatches - nk - nc) :
          /\ keyword_out \in SeqsOfLen(RawKeyword, nk)
          /\ custom_out \in SeqsOfLen(RawOpen, nc)
          /\ ai_out \in SeqsOfLen(RawOpen, na)
    \* a detector that the mode does not run returns nothing
    /\ (mode = "ai-only") => keyword_out = <<>>
    /\ (mode = "ai-only" \/ ~custom_rules_path) => custom_out = <<>>
    /\ (mode = "rules-only") => ai_out = <<>>
    /\ ai_raises \in BOOLEAN
    /\ ai_raises => (mode # "rules-only" /\ ai_out = <<>>)
    /\ pc = "start"
    /\ all_matches = <<>>
    /\ filtered = <<>>
    /\ deduped = <<>>
    /\ result = <<>>

IdleReconcile ==
    /\ mode = "rules-only" /\ min_severity = "low" /\ custom_rules_path = FALSE
    /\ keyword_out = <<>> /\ custom_out = <<>> /\ ai_out = <<>> /\ ai_raises = FALSE
    /\ pc = "idle"
    /\ all_matches = <<>> /\ filtered = <<>> /\ deduped = <<>> /\ result = <<>>

inputVars == <<mode, min_severity, custom_rules_path, keyword_out, custom_out,
               ai_out, ai_raises>>

\* lines 39-89, analyze_with_ai returning
AnalyzeReturns ==
    /\ pc = "start"
    /\ ai_pc \in {"idle", "returned"}
    /\ ~ai_raises
    /\ all_matches' = Merge(mode, custom_rules_path, keyword_out, custom_out, ai_out)
    /\ filtered' = FilterBySeverity(all_matches', min_severity)
    /\ deduped' = _deduplicate(filtered')
    /\ result' = SortBySeverity(AssignSpeakers(deduped'))
    /\ pc' = "returned"
    /\ UNCHANGED inputVars

\* lines 58-70, the exception of analyze_with_ai leaving analyze
AnalyzeRaises ==
    /\ pc = "start"
    /\ ai_pc \in {"idle", "raised"}
    /\ ai_raises
    /\ pc' = "raised"
    /\ UNCHANGED <<inputVars, all_matches, filtered, deduped, result>>

analyze ==
    (AnalyzeReturns \/ AnalyzeRaises) /\ UNCHANGED <<chunkVars, remoteVars, frontVars>>

IdleCallers ==
    /\ caller = "cli" /\ output_format = "text" /\ upload = FALSE
    /\ caller_pc = "idle" /\ outcome = "none"

IdleScan ==
    /\ transcript = <<>> /\ rules_source = "missing" /\ scan_rules = <<>>
    /\ scan_matches = <<>> /\ scan_log = <<>> /\ scan_error = "none"
    /\ scan_pc = "idle"

IdleSpeakers == speaker_text = <<>> /\ speaker_map = <<>> /\ speaker_pc = "idle"

IdleFront == IdleCallers /\ IdleScan /\ IdleSpeakers

Init == InitReconcile /\ IdleChunks /\ IdleRemote /\ IdleFront

Next == analyze

Spec == Init /\ [][Next]_vars

InitSplit == InitChunks /\ IdleReconcile /\ IdleRemote /\ IdleFront

NextSplit == SplitIntoChunks /\ UNCHANGED <<reconcileVars, remoteVars, frontVars>>

SpecChunks == InitSplit /\ [][NextSplit]_vars

-----------------------------------------------------------------------------
(* SpecRemote: one call of analyze(), the remote adapter step by step *)

BigRun == [ch |-> "x", n |-> MAX_CHARS_PER_CHUNK]

RemoteTexts == UNION {[1..k -> {NL, BigRun}] : k \in 0..MaxRemoteRuns}

KeywordFinding == [category |-> "sales/fraud", severity |-> "low",
                   matched_text |-> "side deal", line_number |-> 1]

InitRemote ==
    /\ mode \in Modes
    /\ min_severity = "low"
    /\ custom_rules_path = FALSE
    /\ keyword_out \in {<<>>, <<KeywordFinding>>}
    /\ (mode = "ai-only") => keyword_out = <<>>
    /\ custom_out = <<>> /\ ai_out = <<>> /\ ai_raises = FALSE
    /\ pc = "start"
    /\ all_matches = <<>> /\ filtered = <<>> /\ deduped = <<>> /\ result = <<>>
    /\ text \in RemoteTexts
    /\ chunks = <<>>
    /\ split_pc = "idle"
    /\ api_key \in BOOLEAN
    /\ anthropic_installed \in BOOLEAN
    /\ ai_pc = IF mode = "rules-only" THEN "idle" ELSE "start"
    /\ chunk_i = 0 /\ attempt = 0
    /\ all_findings = <<>> /\ ai_error = "none" /\ log = <<>>
    /\ IdleFront

NextRemote ==
    \/ RemoteBegin
    \/ RemoteCall
    \/ SleepBetweenChunks
    \/ SleepBeforeRetry
    \/ analyze

SpecRemote == InitRemote /\ [][NextRemote]_vars

-----------------------------------------------------------------------------
(* rules/keyword_rules.py: scan_text *)

\* A text to scan is a sequence of tokens: a word, or the newline.  The
\* words of a line stand one white space apart.
Words == {"side", "Side", "deal", "kickback"}

\* re.IGNORECASE: a word without the case of its letters
Lower(w) == IF w = "Side" THEN "side" ELSE w

\* lines 22-27.  A pattern is the sequence of the words it matches one after
\* the other: <<"side", "deal">> is r"\bside\s+deal\b".
Rule(category, severity, pattern, description) ==
    [category |-> category, severity |-> severity, pattern |-> pattern,
     description |-> description]

\* line 91
SIDE_DEAL == Rule("sales/fraud", "low", <<"side", "deal">>, "Side deal mentioned")

\* line 92
KICKBACK == Rule("sales/fraud", "low", <<"kickback">>, "Kickback reference")

\* line 96, the two rules above standing for the catalogue
ALL_BUILTIN_RULES == <<SIDE_DEAL, KICKBACK>>

\* a pattern with an unbalanced parenthesis: re cannot compile it
IsMalformed(pattern) == \E k \in 1..Len(pattern) : pattern[k] = "("

\* the pattern matches the words of the line from position p on
MatchesAt(pattern, line, p) ==
    /\ p + Len(pattern) - 1 <= Len(line)
    /\ \A k \in 1..Len(pattern) : Lower(line[p + k - 1]) = Lower(pattern[k])

RECURSIVE FindIter(_, _, _)
\* line 109: re.finditer(rule.pattern, line, re.IGNORECASE), the starts of
\* the matches from position p on: leftmost first, the next one searched
\* after the end of the last
FindIter(pattern, line, p) ==
    IF p + Len(pattern) - 1 > Len(line) THEN <<>>
    ELSE IF MatchesAt(pattern, line, p)
    THEN <<p>> \o FindIter(pattern, line, p + Len(pattern))
    ELSE FindIter(pattern, line, p + 1)

\* lines 111-113, l counted from 1
Context(ls, l) ==
    SubSeq(ls, IF l - 1 > 1 THEN l - 1 ELSE 1, IF Len(ls) < l + 1 THEN Len(ls) ELSE l + 1)

LineMatches_ZeroBased(rs, r, ls, l) ==
    LET starts == FindIter(rs[r].pattern, ls[l], 1)
    IN  [k \in 1..Len(starts) |->
            [category     |-> rs[r].category,
             severity     |-> rs[r].severity,
             pattern      |-> rs[r].pattern,
             description  |-> rs[r].description,
             matched_text |-> SubSeq(ls[l], starts[k],
                                     starts[k] + Len(rs[r].pattern) - 1),
             line_number  |-> l - 1,
             context      |-> Context(ls, l),
             source       |-> "keyword",
             rule_index   |-> r,
             start        |-> starts[k]]]

\* lines 109-124: the matches of rule number r on line number l, in the
\* order of finditer.  rule_index and start are r and match.start(), which a
\* RuleMatch does not keep; they are kept here to state the order of the
\* matches.
LineMatches(rs, r, ls, l) ==
    LET starts == FindIter(rs[r].pattern, ls[l], 1)
    IN  [k \in 1..Len(starts) |->
            [category     |-> rs[r].category,
             severity     |-> rs[r].severity,
             pattern      |-> rs[r].pattern,
             description  |-> rs[r].description,
             matched_text |-> SubSeq(ls[l], starts[k],
                                     starts[k] + Len(rs[r].pattern) - 1),
             line_number  |-> l,
             context      |-> Context(ls, l),
             source       |-> "keyword",
             rule_index   |-> r,
             start        |-> starts[k]]]

ScanEvent(set, r, l) ==
    [ev |-> "scan", set |-> set, rule |-> r, line |-> l, error |-> "none"]

RaiseEvent(set, r, error) ==
    [ev |-> "raise", set |-> set, rule |-> r, line |-> 0, error |-> error]

RECURSIVE ScanLoop(_, _, _, _, _, _)
\* lines 107-124: rule after rule, line after line.  re.finditer compiles
\* the pattern when it is called, so a malformed pattern raises re.error
\* when its rule is reached
ScanLoop(rs, ls, set, r, l, st) ==
    IF r > Len(rs) THEN st
    ELSE IF IsMalformed(rs[r].pattern)
    THEN [st EXCEPT !.error = "re.error",
                    !.log = Append(@, RaiseEvent(set, r, "re.error"))]
    ELSE IF l > Len(ls) THEN ScanLoop(rs, ls, set, r + 1, 1, st)
    ELSE ScanLoop(rs, ls, set, r, l + 1,
                  [st EXCEPT !.matches = @ \o LineMatches(rs, r, ls, l),
                             !.log = Append(@, ScanEvent(set, r, l))])

\* lines 99-126: scan_text(text, rules); set names the rules in the log
scan_text(t, rs, set) ==
    ScanLoop(rs, SplitTokens(t), set, 1, 1,
             [matches |-> <<>>, log |-> <<>>, error |-> "none"])

-----------------------------------------------------------------------------
(* rules/custom_rules.py *)

RuleKeys == {"category", "severity", "pattern", "description"}

\* an object of the rules file: the keys it has and their values
Entry(keys, category, severity, pattern, description) ==
    [keys |-> keys, category |-> category, severity |-> severity,
     pattern |-> pattern, description |-> description]

\* entry.get(key, default)
Get(entry, key, default) == IF key \in entry.keys THEN entry[key] ELSE default

CustomEntries ==
    {Entry(RuleKeys, "custom/secrecy", "high", <<"side">>, "Side"),
     Entry({"pattern"}, Absent, Absent, <<"kickback">>, Absent),
     Entry(RuleKeys, "custom/secrecy", UnknownSeverity, <<"deal">>, "Deal"),
     Entry(RuleKeys \ {"pattern"}, "custom/secrecy", "high", <<>>, "No pattern"),
     Entry(RuleKeys, "custom/secrecy", "high", <<"side", "(">>, "Malformed")}

RECURSIVE LoadLoop(_, _, _)
\* lines 31-40: entry["pattern"] raises KeyError when the key is missing
LoadLoop(data, i, rs) ==
    IF i > Len(data) THEN [rules |-> rs, error |-> "none"]
    ELSE IF "pattern" \notin data[i].keys THEN [rules |-> <<>>, error |-> "KeyError"]
    ELSE LoadLoop(data, i + 1,
                  Append(rs, Rule(Get(data[i], "category", "custom"),
                                  Get(data[i], "severity", "medium"),
                                  data[i].pattern,
                                  Get(data[i], "description", "Custom rule match"))))

\* lines 11-40: no pattern is compiled here
load_custom_rules(source) ==
    IF ~source.exists THEN [rules |-> <<>>, error |-> "FileNotFoundError"]
    ELSE LoadLoop(source.data, 1, <<>>)

\* lines 47-48
MarkCustom(ms) == [k \in 1..Len(ms) |-> [ms[k] EXCEPT !.source = "custom"]]

-----------------------------------------------------------------------------
(* SpecRules: the rule scans of one call of analyze() *)

\* the most entries of a custom rules file
MaxEntries == 2

RuleSources ==
    {[exists |-> FALSE, data |-> <<>>]}
    \cup {[exists |-> TRUE, data |-> d] :
             d \in UNION {[1..n -> CustomEntries] : n \in 0..MaxEntries}}

RuleTexts == {<<"kickback">>, <<"Side", "deal", "\n", "side">>}

RulesFrame ==
    /\ UNCHANGED <<reconcileVars, chunkVars, remoteVars, callerVars, speakerVars>>
    /\ UNCHANGED <<transcript, rules_source>>

\* analyzer.py lines 61-62: all_matches.extend(scan_text(text))
ScanBuiltin ==
    /\ scan_pc = "builtin"
    /\ IF mode \in {"hybrid", "rules-only"}
       THEN LET st == scan_text(transcript, ALL_BUILTIN_RULES, "builtin")
            IN  /\ scan_matches' = scan_matches \o st.matches
                /\ scan_log' = scan_log \o st.log
       ELSE UNCHANGED <<scan_matches, scan_log>>
    /\ scan_pc' = IF custom_rules_path /\ mode \in {"hybrid", "rules-only"}
                  THEN "load" ELSE "returned"
    /\ UNCHANGED <<scan_rules, scan_error>>
    /\ RulesFrame

\* analyzer.py lines 65-66, custom_rules.py line 45
LoadCustomRules ==
    /\ scan_pc = "load"
    /\ LET loaded == load_custom_rules(rules_source)
       IN  IF loaded.error # "none"
           THEN /\ scan_error' = loaded.error
                /\ scan_log' = Append(scan_log, RaiseEvent("custom", 0, loaded.error))
                /\ scan_pc' = "raised"
                /\ UNCHANGED scan_rules
           ELSE /\ scan_rules' = loaded.rules
                /\ scan_pc' = "custom"
                /\ UNCHANGED <<scan_error, scan_log>>
    /\ UNCHANGED scan_matches
    /\ RulesFrame

\* custom_rules.py lines 46-49
ScanCustom ==
    /\ scan_pc = "custom"
    /\ LET st == scan_text(transcript, scan_rules, "custom")
       IN  /\ scan_log' = scan_log \o st.log
           /\ scan_error' = st.error
           /\ IF st.error # "none"
              THEN scan_pc' = "raised" /\ UNCHANGED scan_matches
              ELSE /\ scan_pc' = "returned"
                   /\ scan_matches' = scan_matches \o MarkCustom(st.matches)
    /\ UNCHANGED scan_rules
    /\ RulesFrame

InitRules ==
    /\ mode \in Modes
    /\ min_severity = "low"
    /\ custom_rules_path \in BOOLEAN
    /\ keyword_out = <<>> /\ custom_out = <<>> /\ ai_out = <<>> /\ ai_raises = FALSE
    /\ pc = "idle"
    /\ all_matches = <<>> /\ filtered = <<>> /\ deduped = <<>> /\ result = <<>>
    /\ IdleChunks /\ IdleRemote /\ IdleCallers /\ IdleSpeakers
    /\ transcript \in RuleTexts
    /\ rules_source \in RuleSources
    /\ scan_rules = <<>>
    /\ scan_matches = <<>> /\ scan_log = <<>> /\ scan_error = "none"
    /\ scan_pc = "builtin"

NextRules == ScanBuiltin \/ LoadCustomRules \/ ScanCustom

SpecRules == InitRules /\ [][NextRules]_vars

-----------------------------------------------------------------------------
(* SpecScan: one call of scan_text(text, rules) *)

\* the most tokens (words and newlines) of a text to scan
MaxTokens == 4

\* the most rules of a rule list
MaxRules == 2

ScanTexts == UNION {[1..n -> Words \cup {"\n"}] : n \in 0..MaxTokens}

RulePool ==
    {SIDE_DEAL, KICKBACK,
     Rule("custom/secrecy", "high", <<"side">>, "Side"),
     Rule("custom/secrecy", "high", <<"side", "(">>, "Malformed")}

RuleLists == UNION {[1..n -> RulePool] : n \in 0..MaxRules}

InitScan ==
    /\ IdleReconcile /\ IdleChunks /\ IdleRemote /\ IdleCallers /\ IdleSpeakers
    /\ transcript \in ScanTexts
    /\ rules_source = "missing"
    /\ scan_rules \in RuleLists
    /\ scan_matches = <<>> /\ scan_log = <<>> /\ scan_error = "none"
    /\ scan_pc = "scan"

\* rules/keyword_rules.py lines 99-126
ScanText ==
    /\ scan_pc = "scan"
    /\ LET st == scan_text(transcript, scan_rules, "rules")
       IN  /\ scan_matches' = st.matches
           /\ scan_log' = st.log
           /\ scan_error' = st.error
           /\ scan_pc' = IF st.error # "none" THEN "raised" ELSE "returned"
    /\ UNCHANGED scan_rules
    /\ RulesFrame

NextScan == ScanText

SpecScan == InitScan /\ [][NextScan]_vars

-----------------------------------------------------------------------------
(* SpecCallers: one request through a front end *)

Callers == {"cli", "web", "api"}

RECURSIVE StripTextLeft(_)
StripTextLeft(s) ==
    IF s # <<>> /\ Head(s) = NL THEN StripTextLeft(Tail(s)) ELSE s

RECURSIVE StripTextRight(_)
StripTextRight(s) ==
    IF s # <<>> /\ s[Len(s)] = NL THEN StripTextRight(SubSeq(s, 1, Len(s) - 1))
    ELSE s

\* text.strip(): the newline is the only white space of the texts here
StripText(s) == StripTextRight(StripTextLeft(s))

\* the texts a request carries: blank ones, one chunk, two chunks
CallerTexts == {<<>>, <<NL>>, <<BigRun>>, <<NL, BigRun>>, <<BigRun, NL>>}

\* the front end answers without calling analyze()
Answer(o) ==
    /\ caller_pc' = "done"
    /\ outcome' = o
    /\ UNCHANGED <<pc, ai_pc, text>>

\* the front end calls analyze(text=t, mode=mode, api_key=api_key, ...)
CallAnalyze(t) ==
    /\ caller_pc' = "analyzing"
    /\ text' = t
    /\ pc' = "start"
    /\ ai_pc' = IF mode = "rules-only" THEN "idle" ELSE "start"
    /\ UNCHANGED outcome

\* what a front end leaves alone before analyze() runs
CallerFrame ==
    /\ UNCHANGED <<mode, min_severity, custom_rules_path, keyword_out, custom_out,
                   ai_out, ai_raises, all_matches, filtered, deduped, result>>
    /\ UNCHANGED <<chunks, split_pc>>
    /\ UNCHANGED <<api_key, anthropic_installed, chunk_i, attempt, all_findings,
                   ai_error, log>>
    /\ UNCHANGED <<caller, output_format, upload>>
    /\ UNCHANGED <<scanVars, speakerVars>>

\* cli.py lines 88-117: the empty input, the mode information that only the
\* text format shows, then analyze() on the text as it was read
main_begin ==
    /\ caller = "cli" /\ caller_pc = "start"
    /\ IF StripText(text) = <<>> THEN Answer("exit 1: input is empty")
       ELSE IF output_format = "text" /\ mode \in {"hybrid", "ai-only"}
               /\ ~api_key /\ mode = "ai-only"
       THEN Answer("exit 1: ai-only mode requires an API key")
       ELSE CallAnalyze(text)
    /\ CallerFrame

\* web.py lines 20-47: the text field is stripped, an uploaded file is not
analyze_text_begin ==
    /\ caller = "web" /\ caller_pc = "start"
    /\ LET t == IF upload THEN text ELSE StripText(text)
       IN  IF t = <<>> THEN Answer("400: no text provided")
           ELSE IF mode \in {"hybrid", "ai-only"} /\ ~api_key
           THEN Answer("400: API key required for AI analysis")
           ELSE CallAnalyze(t)
    /\ CallerFrame

\* api/index.py lines 47-67
do_POST_begin ==
    /\ caller = "api" /\ caller_pc = "start"
    /\ LET t == StripText(text)
       IN  IF t = <<>> THEN Answer("400: no text provided")
           ELSE IF mode \in {"hybrid", "ai-only"} /\ ~api_key
           THEN Answer("400: API key required for AI analysis")
           ELSE CallAnalyze(t)
    /\ CallerFrame

\* analyze() has returned or raised: what the front end does with it
CallerEnd(returned, raised) ==
    /\ caller_pc = "analyzing"
    /\ pc \in {"returned", "raised"}
    /\ outcome' = IF pc = "returned" THEN returned ELSE raised
    /\ caller_pc' = "done"
    /\ UNCHANGED <<reconcileVars, chunkVars, remoteVars>>
    /\ UNCHANGED <<caller, output_format, upload>>
    /\ UNCHANGED <<scanVars, speakerVars>>

\* cli.py lines 111-123: the report is printed; no exception is caught
main_end == caller = "cli" /\ CallerEnd("findings printed", "traceback")

\* web.py lines 41-64
analyze_text_end == caller = "web" /\ CallerEnd("200: findings", "500")

\* api/index.py lines 61-105
do_POST_end == caller = "api" /\ CallerEnd("200: findings", "500")

InitCallers ==
    /\ caller \in Callers
    /\ output_format \in {"text", "json"}
    /\ (caller # "cli") => output_format = "json"
    /\ upload \in BOOLEAN
    /\ upload => caller = "web"
    /\ caller_pc = "start"
    /\ outcome = "none"
    /\ mode \in Modes
    /\ min_severity = "low"
    /\ custom_rules_path = FALSE
    /\ keyword_out \in {<<>>, <<KeywordFinding>>}
    /\ (mode = "ai-only") => keyword_out = <<>>
    /\ custom_out = <<>> /\ ai_out = <<>> /\ ai_raises = FALSE
    /\ pc = "idle"
    /\ all_matches = <<>> /\ filtered = <<>> /\ deduped = <<>> /\ result = <<>>
    /\ text \in CallerTexts
    /\ chunks = <<>>
    /\ split_pc = "idle"
    /\ api_key \in BOOLEAN
    /\ anthropic_installed \in BOOLEAN
    /\ ai_pc = "idle"
    /\ chunk_i = 0 /\ attempt = 0
    /\ all_findings = <<>> /\ ai_error = "none" /\ log = <<>>
    /\ IdleScan /\ IdleSpeakers

NextCallers ==
    \/ main_begin
    \/ analyze_text_begin
    \/ do_POST_begin
    \/ RemoteBegin
    \/ RemoteCall
    \/ SleepBetweenChunks
    \/ SleepBeforeRetry
    \/ analyze
    \/ main_end
    \/ analyze_text_end
    \/ do_POST_end

SpecCallers == InitCallers /\ [][NextCallers]_vars

-----------------------------------------------------------------------------
(* SpecSpeakers: one call of _build_speaker_map() *)

\* the most lines of a text handed to _build_speaker_map
MaxSpeakerLines == 3

SpeakerLines ==
    {<<"A", "l", "i", "c", "e", ":", " ", "h", "e", "l", "l", "o">>,   \* "Alice: hello"
     <<"h", "o", "w", " ", "a", "r", "e", " ", "y", "o", "u">>,   \* "how are you"
     <<"B", "o", "b", ":", " ", "f", "i", "n", "e">>,   \* "Bob: fine"
     <<"[", "B", "o", "b", "]", ":", " ", "h", "i">>,   \* "[Bob]: hi"
     <<"A", "l", " ", "-", " ", "o", "k">>,   \* "Al - ok"
     <<"S", "p", "e", "a", "k", "e", "r", " ", "1", ":", " ", "h", "i">>,   \* "Speaker 1: hi"
     <<"S", "p", "e", "a", "k", "e", "r", " ", "A", ":", " ", "h", "i">>,   \* "Speaker A: hi"
     <<"s", "p", "e", "a", "k", "e", "r", " ", "b", ":", " ", "h", "i">>,   \* "speaker b: hi"
     <<" ", "A", " ", ":", " ", "x">>,   \* " A : x"
     <<"A", "l", ":">>,   \* "Al:"
     <<"A", ":", " ", "h", "i">>,   \* "A: hi"
     <<"[", "A", "l", "]", " ", "x">>}

RECURSIVE JoinChars(_)
\* "\n".join(lines)
JoinChars(ls) ==
    IF Len(ls) = 0 THEN <<>>
    ELSE IF Len(ls) = 1 THEN ls[1]
    ELSE ls[1] \o <<"\n">> \o JoinChars(Tail(ls))

SpeakerTexts ==
    {JoinChars(ls) : ls \in UNION {[1..n -> SpeakerLines] : n \in 0..MaxSpeakerLines}}

InitSpeakers ==
    /\ IdleReconcile /\ IdleChunks /\ IdleRemote /\ IdleCallers /\ IdleScan
    /\ speaker_text \in SpeakerTexts
    /\ speaker_map = <<>>
    /\ speaker_pc = "start"

BuildSpeakerMap ==
    /\ speaker_pc = "start"
    /\ speaker_map' = _build_speaker_map(speaker_text)
    /\ speaker_pc' = "returned"
    /\ UNCHANGED speaker_text
    /\ UNCHANGED <<reconcileVars, chunkVars, remoteVars, callerVars, scanVars>>

NextSpeakers == BuildSpeakerMap

SpecSpeakers == InitSpeakers /\ [][NextSpeakers]_vars

-----------------------------------------------------------------------------
(* Claims about the reconciler (Spec) *)

SameFinding(a, b) ==
    /\ a.line_number = b.line_number
    /\ a.category = b.category
    /\ a.source = b.source
    /\ a.matched_text = b.matched_text

InGroup(m, line, category) == m.line_number = line /\ m.category = category

\* C1: the dedup output never holds two findings that agree on line_number,
\* category, source and matched_text.
C1_NoExactDuplicates ==
    pc = "returned" =>
        \A i, j \in 1..Len(deduped) : i < j => ~SameFinding(deduped[i], deduped[j])

\* C2: a (line_number, category) group that enters dedup with an AI finding
\* and a non-AI finding leaves it with an AI finding and without any non-AI
\* finding.
C2_AIPrecedence ==
    pc = "returned" =>
        \A line \in Lines, category \in Categories :
            LET inp == {m \in Range(filtered) : InGroup(m, line, category)}
                out == {m \in Range(deduped) : InGroup(m, line, category)}
            IN  ((\E m \in inp : m.source = "ai") /\ (\E m \in inp : m.source # "ai"))
                => /\ \E m \in out : m.source = "ai"
                   /\ \A m \in out : m.source = "ai"

\* C3: two findings of one source on one line in one category with different
\* matched_text are both found in the dedup output, for each source; a
\* custom pair stays also when a keyword finding entered the group first.
\* (What is left of the non-AI findings of a group that an AI finding shares
\* is C2's case, and is not asked here.)
C3_SameSourceBothKept ==
    pc = "returned" =>
        \A a, b \in Range(filtered) :
            (/\ a.source = b.source
             /\ a.line_number = b.line_number
             /\ a.category = b.category
             /\ a.matched_text # b.matched_text
             /\ \/ a.source = "ai"
                \/ \A m \in Range(filtered) :
                       InGroup(m, a.line_number, a.category) => m.source # "ai")
            => /\ \E m \in Range(deduped) : SameFinding(m, a)
               /\ \E m \in Range(deduped) : SameFinding(m, b)

\* C4: no returned finding is below the severity floor: each has a rank in
\* critical, high, medium, low (a severity outside the four levels ranks as
\* low, as in the filter) that is at most the rank of min_severity.
C4_SeverityFloor ==
    pc = "returned" =>
        \A i \in 1..Len(result) :
            SeverityRank(result[i].severity) <= SEVERITY_ORDER[min_severity]

\* analyze dropped an AI finding below the floor and returned a finding of
\* another source at or above it
C4_Witness ==
    /\ pc = "returned"
    /\ \E m \in Range(all_matches) :
           m.source = "ai" /\ SeverityRank(m.severity) > SEVERITY_ORDER[min_severity]
    /\ \E m \in Range(result) : m.source # "ai"

PositionOf(ms, id) == CHOOSE i \in 1..Len(ms) : ms[i].id = id

\* C5: the returned list holds the findings of the dedup output, ordered by
\* severity rank non-decreasing, findings of equal rank in the order the
\* dedup output had them.
C5_Ranking ==
    pc = "returned" =>
        /\ Len(result) = Len(deduped)
        /\ {m.id : m \in Range(result)} = {m.id : m \in Range(deduped)}
        /\ \A i, j \in 1..Len(result) :
               i < j => SeverityRank(result[i].severity) <= SeverityRank(result[j].severity)
        /\ \A i, j \in 1..Len(deduped) :
               (i < j /\ SeverityRank(deduped[i].severity) = SeverityRank(deduped[j].severity))
               => PositionOf(result, deduped[i].id) < PositionOf(result, deduped[j].id)

\* the sort moved a finding forward, past two findings of equal severity
C5_Witness ==
    /\ pc = "returned"
    /\ Len(deduped) = 3
    /\ SeverityRank(deduped[1].severity) = SeverityRank(deduped[2].severity)
    /\ SeverityRank(deduped[3].severity) < SeverityRank(deduped[1].severity)
    /\ result[1].id = deduped[3].id

-----------------------------------------------------------------------------
(* Claims about the splitter (SpecChunks) *)

ChunkTexts == [k \in 1..Len(chunks) |-> chunks[k].text]

RECURSIVE Flatten(_)
Flatten(ss) == IF ss = <<>> THEN <<>> ELSE Head(ss) \o Flatten(Tail(ss))

\* C6: the chunk texts joined in order with one newline between consecutive
\* chunks are the input text, and the lines of the chunks, chunk after chunk,
\* are the lines of the input text (no chunk begins or ends inside a line).
C6_ChunkRoundTrip ==
    split_pc = "returned" =>
        /\ JoinLines(ChunkTexts) = text
        /\ Flatten([k \in 1..Len(chunks) |-> SplitLines(chunks[k].text)]) = SplitLines(text)

\* a text of three chunks that has an empty line and ends in a newline
C6_Witness ==
    /\ split_pc = "returned"
    /\ Len(chunks) >= 3
    /\ text[Len(text)] = NL
    /\ \E i \in 1..Len(text) - 1 : text[i] = NL /\ text[i + 1] = NL

\* C7: no chunk is longer than MAX_CHARS_PER_CHUNK characters.
C7_ChunkBudget ==
    split_pc = "returned" =>
        \A k \in 1..Len(chunks) : CharLen(chunks[k].text) <= MAX_CHARS_PER_CHUNK

-----------------------------------------------------------------------------
(* Claims about the remote adapter (SpecRemote) *)

\* the places in the log of the remote calls made for chunk k
CallsOf(k) == {p \in 1..Len(log) : log[p].ev = "call" /\ log[p].chunk = k}

RateLimited(event) == event.ev = "call" /\ ~event.ok /\ "rate" \in event.message

\* C8: a call for a chunk that is not the chunk's first comes right after a
\* wait of the full inter-chunk delay that comes right after a rate-limit
\* failure of that chunk; a chunk gets at most 3 calls; no call follows a
\* success for the same chunk; and a rate-limit failure of a chunk's third
\* call ends the invocation with an error, no findings returned.
C8_BoundedRetry ==
    \A p \in 1..Len(log) :
        log[p].ev = "call" =>
            /\ Cardinality(CallsOf(log[p].chunk)) <= 3
            /\ (\E q \in CallsOf(log[p].chunk) : q < p)
               => /\ p >= 3
                  /\ log[p - 1].ev = "sleep"
                  /\ log[p - 1].seconds = DELAY_BETWEEN_CHUNKS
                  /\ log[p - 2].chunk = log[p].chunk
                  /\ RateLimited(log[p - 2])
            /\ log[p].ok => \A q \in CallsOf(log[p].chunk) : q <= p
            /\ (RateLimited(log[p]) /\ Cardinality({q \in CallsOf(log[p].chunk) : q <= p}) = 3)
               => /\ p = Len(log)
                  /\ ai_pc = "raised"
                  /\ ai_raises
                  /\ pc # "returned"
                  /\ result = <<>>

\* the first chunk succeeded on a retry, the second chunk was rate-limited
\* three times, and analyze ended with the error
C8_Witness ==
    /\ pc = "raised"
    /\ ai_error = "RuntimeError: rate limit"
    /\ Cardinality(CallsOf(1)) = 2
    /\ Cardinality(CallsOf(2)) = 3
    /\ \A p \in CallsOf(2) : RateLimited(log[p])

AuthOrBilling(event) ==
    event.ev = "call" /\ ~event.ok /\ event.message \cap {"auth", "billing"} # {}

\* C9: a call that fails with an authentication or a billing failure is the
\* last remote call and the last wait of the invocation, analyze_with_ai
\* raises, and analyze returns no finding list, whatever the mode.
C9_NoRetryOnAuthOrBilling ==
    \A p \in 1..Len(log) :
        AuthOrBilling(log[p]) =>
            /\ p = Len(log)
            /\ ai_pc = "raised"
            /\ ai_raises
            /\ ai_error \in {"RuntimeError: invalid key", "RuntimeError: credits"}
            /\ pc # "returned"
            /\ result = <<>>

\* hybrid mode with keyword findings computed: a billing failure on a retry
\* for the second chunk ended analyze with the error
C9_Witness ==
    /\ pc = "raised"
    /\ mode = "hybrid"
    /\ keyword_out # <<>>
    /\ ai_error = "RuntimeError: credits"
    /\ Len(log) >= 5
    /\ log[Len(log)].chunk = 2
    /\ log[Len(log)].attempt = 1

IsFindingArray(value) ==
    value.type = "list" /\ \A j \in 1..Len(value.items) : value.items[j].type = "dict"

\* a response text that is a JSON array of finding records, bare or between
\* an opening fence line and a closing fence
WellFormed(response) ==
    \/ /\ Len(response) = 1
       /\ response[1].kind = "json" /\ IsFindingArray(response[1].value)
    \/ /\ Len(response) = 5
       /\ response[1] = FENCE /\ response[2] = BREAK
       /\ response[3].kind = "json" /\ IsFindingArray(response[3].value)
       /\ response[4] = BREAK /\ response[5] = FENCE

\* some token of the response text is a JSON array of finding records
HoldsFindingArray(response) ==
    \E j \in 1..Len(response) :
        response[j].kind = "json" /\ IsFindingArray(response[j].value)

\* C10: after a successful call whose response text is malformed the
\* invocation does not fail, and when analyze_with_ai returns every chunk has
\* had its successful call; no finding of the chunk is collected from a
\* response text that holds no array of finding records.
C10_DegradeToNothing ==
    \A p \in 1..Len(log) :
        (log[p].ev = "call" /\ log[p].ok /\ ~WellFormed(log[p].response)) =>
            /\ ai_error = "none"
            /\ ai_pc # "raised"
            /\ ~HoldsFindingArray(log[p].response) =>
                   \A j \in 1..Len(all_findings) : all_findings[j].chunk # log[p].chunk
            /\ ai_pc = "returned" =>
                   \A k \in 1..Len(chunks) : \E q \in CallsOf(k) : log[q].ok

-----------------------------------------------------------------------------
(* Claims about the front ends (SpecCallers) *)

ConfigurationErrors == {"exit 1: ai-only mode requires an API key",
                        "400: API key required for AI analysis"}

\* C11: a request with mode ai-only, a text that is not blank and no
\* credential (neither supplied nor in the environment) ends, on every
\* caller path, with a configuration error and without analyze() having
\* been called; it never ends by reporting a finding list.
C11_MissingCredentialIsError ==
    (mode = "ai-only" /\ ~api_key /\ StripText(text) # <<>> /\ caller_pc = "done")
        => /\ outcome \in ConfigurationErrors
           /\ pc = "idle"
           /\ ai_pc = "idle"

-----------------------------------------------------------------------------
(* Claims about the rule scans (SpecRules) *)

\* C12: when the custom rule source is missing, lacks a pattern or holds a
\* malformed regular expression, the error is raised before any line of the
\* text has been scanned by any rule, built-in or custom.
C12_RuleErrorsBeforeScanning ==
    (scan_error # "none") =>
        \A k \in 1..Len(scan_log) : scan_log[k].ev # "scan"

-----------------------------------------------------------------------------
(* Claims about the speaker map (SpecSpeakers) *)

Labelled(line) == \E k \in 1..4 : PatternMatch(k, line).matched

\* the name the first matching convention captures, stripped
NameOn(line) ==
    StripChars(PatternMatch(Least({k \in 1..4 : PatternMatch(k, line).matched}),
                            line).group)

Greatest(S) == CHOOSE x \in S : \A y \in S : y <= x

AliceAndBob ==
    <<"A", "l", "i", "c", "e", ":", " ", "h", "e", "l", "l", "o", "\n",
      "h", "o", "w", " ", "a", "r", "e", " ", "y", "o", "u", "\n",
      "B", "o", "b", ":", " ", "f", "i", "n", "e">>

\* C13: for a text of N lines the speaker map has exactly the keys 1..N; the
\* value at line i is the name captured on the latest line j <= i that
\* matches a labelling convention, taken from the first convention in
\* priority order that matches line j, and the empty string when no line at
\* or before i carries a label.  "Alice: hello / how are you / Bob: fine"
\* maps lines 1 and 2 to Alice and line 3 to Bob.
C13_SpeakerForwardCarry ==
    (speaker_pc = "returned") =>
        LET ls == SplitTokens(speaker_text)
        IN  /\ DOMAIN speaker_map = 1..Len(ls)
            /\ \A i \in 1..Len(ls) :
                  LET labelled == {j \in 1..i : Labelled(ls[j])}
                  IN  speaker_map[i] = IF labelled = {} THEN <<>>
                                       ELSE NameOn(ls[Greatest(labelled)])
            /\ (speaker_text = AliceAndBob) =>
                  speaker_map = << <<"A", "l", "i", "c", "e">>,
                                   <<"A", "l", "i", "c", "e">>,
                                   <<"B", "o", "b">> >>

\* the example text has been mapped
C13_Witness ==
    /\ speaker_pc = "returned"
    /\ speaker_text = AliceAndBob
    /\ Len(speaker_map) = 3

-----------------------------------------------------------------------------
(* Claims about the keyword scanner (SpecScan) *)

\* words is a case-insensitive match of the pattern at position p of the line
MatchInside(words, pattern, line, p) ==
    /\ p >= 1 /\ p + Len(words) - 1 <= Len(line)
    /\ SubSeq(line, p, p + Len(words) - 1) = words
    /\ Len(words) = Len(pattern)
    /\ \A j \in 1..Len(words) : Lower(words[j]) = Lower(pattern[j])

\* a comes before b: by rule, then by line, then by place in the line
Before(a, b) ==
    \/ a.rule_index < b.rule_index
    \/ a.rule_index = b.rule_index /\ a.line_number < b.line_number
    \/ a.rule_index = b.rule_index /\ a.line_number = b.line_number
       /\ a.start + Len(a.matched_text) <= b.start

\* C14: every finding the keyword scanner returns for rules R and a text of
\* N lines has 1 <= line_number <= N, carries the category, severity and
\* pattern of one rule of R, and its matched_text is a case-insensitive match
\* of that pattern inside line line_number; the findings come rule by rule,
\* within a rule line by line, within a line left to right.
C14_ScannerSoundness ==
    (scan_pc = "returned") =>
        LET ls == SplitTokens(transcript)
        IN  /\ \A k \in 1..Len(scan_matches) :
                  LET f == scan_matches[k]
                  IN  /\ f.line_number \in 1..Len(ls)
                      /\ \E r \in 1..Len(scan_rules) :
                            /\ f.category = scan_rules[r].category
                            /\ f.severity = scan_rules[r].severity
                            /\ f.pattern = scan_rules[r].pattern
                            /\ \E p \in 1..Len(ls[f.line_number]) :
                                  MatchInside(f.matched_text, scan_rules[r].pattern,
                                              ls[f.line_number], p)
                      /\ f.rule_index \in 1..Len(scan_rules)
                      /\ f.pattern = scan_rules[f.rule_index].pattern
                      /\ MatchInside(f.matched_text, f.pattern, ls[f.line_number],
                                     f.start)
            /\ \A k \in 1..(Len(scan_matches) - 1) :
                  Before(scan_matches[k], scan_matches[k + 1])

\* findings of two rules, one on the second line, one in other case than
\* its pattern
C14_Witness ==
    /\ scan_pc = "returned"
    /\ \E a, b \in 1..Len(scan_matches) :
          scan_matches[a].rule_index # scan_matches[b].rule_index
    /\ \E a \in 1..Len(scan_matches) : scan_matches[a].line_number = 2
    /\ \E a \in 1..Len(scan_matches) :
          scan_matches[a].matched_text # scan_matches[a].pattern

-----------------------------------------------------------------------------
(* Claims about the severities of the returned findings (Spec) *)

\* C15: every finding analyze returns, whatever its source (built-in keyword
\* rule, custom rule loaded from a rule source, AI response), has a severity
\* that is one of critical, high, medium, low.
C15_SeverityIsDefinedLevel ==
    (pc = "returned") =>
        \A k \in 1..Len(result) : result[k].severity \in Severities

-----------------------------------------------------------------------------
(* Claims about the order of the remote calls and the waits (SpecRemote) *)

IsCall(k) == k \in 1..Len(log) /\ log[k].ev = "call"

IsFullWait(k) ==
    k \in 1..Len(log) /\ log[k].ev = "sleep" /\ log[k].seconds = DELAY_BETWEEN_CHUNKS

\* C16: within one invocation the remote capability is called for one chunk
\* at a time in increasing chunk order; the first call for chunk k+1 comes
\* only after a call for chunk k has succeeded and its response has been
\* processed; exactly one full wait of DELAY_BETWEEN_CHUNKS seconds lies
\* between every two consecutive calls, be the second a retry of the same
\* chunk or the first call of the next one; no wait precedes the first call.
C16_SerialCallsWithDelay ==
    /\ (log # <<>>) => (IsCall(1) /\ log[1].chunk = 1 /\ log[1].attempt = 0)
    /\ \A k \in 1..Len(log) :
          /\ (log[k].ev = "sleep") => (IsFullWait(k) /\ IsCall(k - 1))
          /\ (IsCall(k) /\ k > 1) =>
                /\ IsFullWait(k - 1)
                /\ IsCall(k - 2)
                /\ \/ /\ ~log[k - 2].ok
                      /\ log[k].chunk = log[k - 2].chunk
                      /\ log[k].attempt = log[k - 2].attempt + 1
                   \/ /\ log[k - 2].ok
                      /\ log[k].chunk = log[k - 2].chunk + 1
                      /\ log[k].attempt = 0

\* a retry of the first chunk and then the first call of the second chunk
C16_Witness ==
    \E k \in 1..Len(log) :
        /\ IsCall(k) /\ log[k].chunk = 2
        /\ \E j \in 1..(k - 1) : IsCall(j) /\ log[j].chunk = 1 /\ log[j].attempt = 1

-----------------------------------------------------------------------------
(* Claims about the start lines of the chunks (SpecChunks) *)

RECURSIVE LinesBefore(_)
\* the number of lines of the chunks before chunk k
LinesBefore(k) ==
    IF k <= 1 THEN 0
    ELSE LinesBefore(k - 1) + Len(SplitLines(chunks[k - 1].text))

\* C17: the start line recorded for chunk k is 1 plus the number of lines of
\* the chunks 1..k-1 (1 for the first chunk), and the j-th line of chunk k is
\* labelled in the prompt with the number that the same line has in the
\* original text.
C17_StartLinesAreGlobal ==
    (split_pc = "returned") =>
        \A k \in 1..Len(chunks) :
            LET numbered == NumberedLines(chunks[k].text, chunks[k].start_line)
                original == SplitLines(text)
            IN  /\ chunks[k].start_line = 1 + LinesBefore(k)
                /\ Len(numbered) = Len(SplitLines(chunks[k].text))
                /\ \A j \in 1..Len(numbered) :
                      /\ numbered[j].number = LinesBefore(k) + j
                      /\ numbered[j].number \in 1..Len(original)
                      /\ numbered[j].line = original[numbered[j].number]

\* a later chunk of two lines or more that follows a chunk of two lines or more
C17_Witness ==
    /\ split_pc = "returned"
    /\ \E k \in 2..Len(chunks) :
          /\ chunks[k].start_line > 2
          /\ Len(SplitLines(chunks[k].text)) >= 2

====
